---- MODULE Spec2Model ----
(***************************************************************************)
(* Stat cards of a job (src/components/jobs/stat-cards.tsx): the filter    *)
(* evaluator, the card/group configuration held by StatCardConfigurator    *)
(* and JobStatCards, and its persistence in localStorage per job id.       *)
(***************************************************************************)
EXTENDS Integers, Sequences, FiniteSets, TLC

VARIABLES
    jobId,                  \* the jobId prop both components receive from the page
    columns,                \* the columns prop
    localStorage,           \* key -> stored text
    cards,                  \* StatCardConfigurator: useState cards
    groups,                 \* StatCardConfigurator: useState groups
    selectedColumn,         \* StatCardConfigurator: useState selectedColumn
    selectedAggregation,    \* StatCardConfigurator: useState selectedAggregation
    cardTitle,              \* StatCardConfigurator: useState cardTitle
    filters,                \* StatCardConfigurator: useState filters
    groupName,              \* StatCardConfigurator: useState groupName
    selectedCardsForGroup,  \* StatCardConfigurator: useState selectedCardsForGroup
    stripCards,             \* JobStatCards: useState cards
    stripGroups,            \* JobStatCards: useState groups
    isCollapsed,            \* JobStatCards: useState isCollapsed
    cardUuids,              \* uuids drawn so far by handleAddCard
    groupUuids,             \* uuids drawn so far by handleCreateGroup
    drawings,               \* the records handed to the filter evaluator
    evalFilters,            \* the condition list handed to the filter evaluator
    evalResult,             \* what the evaluator returned for them
    lastOp                  \* the handler or effect that ran last ("input": a field or selection change)

cfgVars == <<cards, groups, selectedColumn, selectedAggregation, cardTitle,
             filters, groupName, selectedCardsForGroup>>
stripVars == <<stripCards, stripGroups, isCollapsed>>
evalVars == <<drawings, evalFilters, evalResult>>
vars == <<jobId, columns, localStorage, cfgVars, stripVars, cardUuids, groupUuids,
          evalVars, lastOp>>

(***************************************************************************)
(* Bounds of the model.                                                    *)
(***************************************************************************)
MaxCards == 3       \* Spec: cards handleAddCard may create in one run
MaxGroups == 2      \* Spec: groups handleCreateGroup may create in one run
MaxJobCards == 4    \* SpecJobs: cards job j1 holds
MaxJobGroups == 2   \* SpecJobs: groups handleCreateGroup may create in one run
MaxDrawings == 2    \* records in a filtered list
MaxFilters == 2     \* conditions in a filter list

Jobs == {"j1", "j2"}

(***************************************************************************)
(* JavaScript values.                                                      *)
(***************************************************************************)
Undefined == [t |-> "undefined"]
Null == [t |-> "null"]
NaN == [t |-> "NaN"]
Str(s) == [t |-> "string", s |-> s]
Num(n) == [t |-> "number", n |-> n]
Bool(b) == [t |-> "boolean", b |-> b]

\* An array value, and the values JSON.parse can return that are no array.
Arr(items) == [kind |-> "array", items |-> items]
NonArray(kind) == [kind |-> kind, items |-> <<>>]
IsArray(v) == v.kind = "array"
EmptyArr == Arr(<<>>)

\* A stored text: absent (getItem gives null), text JSON.parse rejects, or the
\* JSON text of a value.
Absent == [t |-> "absent", v |-> EmptyArr]
Invalid == [t |-> "invalid", v |-> EmptyArr]
Json(v) == [t |-> "json", v |-> v]

ColumnType == [TEXT |-> "text", NUMBER |-> "number", DATE |-> "date", BOOLEAN |-> "boolean"]

AggregationType == {"COUNT", "SUM", "AVERAGE", "MIN", "MAX", "COUNT_TRUE", "COUNT_FALSE"}

FilterOperator == {"EQUALS", "NOT_EQUALS", "CONTAINS", "GREATER_THAN", "LESS_THAN",
                   "GREATER_THAN_OR_EQUAL", "LESS_THAN_OR_EQUAL", "IS_TRUE", "IS_FALSE",
                   "IS_EMPTY", "IS_NOT_EMPTY"}

aggregationLabels == [COUNT |-> "Count", SUM |-> "Sum", AVERAGE |-> "Avg", MIN |-> "Min",
                      MAX |-> "Max", COUNT_TRUE |-> "Y", COUNT_FALSE |-> "N"]

\* columns.find((c) => c.id === id): the first match, Undefined when none.
RECURSIVE FindFrom(_, _, _)
FindFrom(cols, id, i) ==
    IF i > Len(cols) THEN Undefined
    ELSE IF cols[i].id = id THEN cols[i]
    ELSE FindFrom(cols, id, i + 1)

FindColumn(cols, id) == FindFrom(cols, id, 1)

getOperatorsForType(type) ==
    CASE type = ColumnType.NUMBER ->
            <<"EQUALS", "NOT_EQUALS", "GREATER_THAN", "LESS_THAN",
              "GREATER_THAN_OR_EQUAL", "LESS_THAN_OR_EQUAL", "IS_EMPTY", "IS_NOT_EMPTY">>
      [] type = ColumnType.BOOLEAN -> <<"IS_TRUE", "IS_FALSE">>
      [] type = ColumnType.TEXT ->
            <<"EQUALS", "NOT_EQUALS", "CONTAINS", "IS_EMPTY", "IS_NOT_EMPTY">>
      [] type = ColumnType.DATE ->
            <<"EQUALS", "NOT_EQUALS", "GREATER_THAN", "LESS_THAN", "IS_EMPTY", "IS_NOT_EMPTY">>
      [] OTHER -> <<"EQUALS", "NOT_EQUALS">>

\* Every aggregation offered for every type.
getAggregationsForAnyType(type) == <<"COUNT", "SUM", "AVERAGE", "MIN", "MAX">>

getAggregationsForType(type) ==
    CASE type = ColumnType.NUMBER -> <<"COUNT", "SUM", "AVERAGE", "MIN", "MAX">>
      [] type = ColumnType.BOOLEAN -> <<"COUNT", "COUNT_TRUE", "COUNT_FALSE">>
      [] OTHER -> <<"COUNT">>

(***************************************************************************)
(* Sequence helpers standing for the array methods the handlers use.       *)
(***************************************************************************)
Range(s) == {s[i] : i \in 1..Len(s)}
Includes(s, x) == \E i \in 1..Len(s) : s[i] = x

\* array.filter((x) => x !== v)
RECURSIVE Without(_, _)
Without(s, v) ==
    IF s = <<>> THEN <<>>
    ELSE IF Head(s) = v THEN Without(Tail(s), v)
    ELSE <<Head(s)>> \o Without(Tail(s), v)

\* array.findIndex((c) => c.id === id), 1-based; 0 stands for -1.
RECURSIVE FindIndexFrom(_, _, _)
FindIndexFrom(s, id, i) ==
    IF i > Len(s) THEN 0
    ELSE IF s[i].id = id THEN i
    ELSE FindIndexFrom(s, id, i + 1)

FindIndex(s, id) == FindIndexFrom(s, id, 1)

RemoveAt(s, i) == SubSeq(s, 1, i - 1) \o SubSeq(s, i + 1, Len(s))
InsertAt(s, i, x) == SubSeq(s, 1, i - 1) \o <<x>> \o SubSeq(s, i, Len(s))

\* The elements at `from` and `to` exchanged.
arraySwap(array, from, to) ==
    [i \in 1..Len(array) |-> IF i = from THEN array[to]
                             ELSE IF i = to THEN array[from] ELSE array[i]]

\* arrayMove of @dnd-kit/sortable for indices found in the array (1-based here):
\* splice the element out of `from`, splice it back in at `to`.
arrayMove(array, from, to) == InsertAt(RemoveAt(array, from), to, array[from])

(***************************************************************************)
(* The filter evaluator. A JavaScript string is a sequence of             *)
(* one-character strings, so that its characters can be inspected.        *)
(***************************************************************************)
MaxStrLen == 2      \* characters in a record value or a filter value

Chars == {"a", "A", "5", " "}
Digits == {"5", "6"}
DigitValue(c) == CASE c = "5" -> 5 [] c = "6" -> 6

toLowerCaseChar(c) == IF c = "A" THEN "a" ELSE c
toLowerCase(s) == [i \in 1..Len(s) |-> toLowerCaseChar(s[i])]

\* s.includes(sub)
StringIncludes(s, sub) ==
    \E i \in 0..(Len(s) - Len(sub)) : SubSeq(s, i + 1, i + Len(sub)) = sub

\* String(n) of an integer.
RECURSIVE DigitsOf(_)
DigitsOf(n) ==
    LET d == CASE n % 10 = 0 -> "0" [] n % 10 = 1 -> "1" [] n % 10 = 2 -> "2"
               [] n % 10 = 3 -> "3" [] n % 10 = 4 -> "4" [] n % 10 = 5 -> "5"
               [] n % 10 = 6 -> "6" [] n % 10 = 7 -> "7" [] n % 10 = 8 -> "8"
               [] n % 10 = 9 -> "9"
    IN  IF n < 10 THEN <<d>> ELSE DigitsOf(n \div 10) \o <<d>>

\* String(v) of a value that is not null or undefined.
String(v) ==
    CASE v.t = "string" -> v.s
      [] v.t = "number" -> IF v.n < 0 THEN <<"-">> \o DigitsOf(0 - v.n) ELSE DigitsOf(v.n)
      [] v.t = "boolean" -> IF v.b THEN <<"t", "r", "u", "e">> ELSE <<"f", "a", "l", "s", "e">>

\* v ?? '' for the two operands the evaluator applies it to.
OrEmpty(v) == IF v.t \in {"undefined", "null"} THEN Str(<<>>) ELSE v

\* The text without the white space at its ends.
RECURSIVE TrimStart(_)
TrimStart(s) == IF s # <<>> /\ Head(s) = " " THEN TrimStart(Tail(s)) ELSE s
RECURSIVE TrimEnd(_)
TrimEnd(s) == IF s # <<>> /\ s[Len(s)] = " " THEN TrimEnd(SubSeq(s, 1, Len(s) - 1)) ELSE s

RECURSIVE DecimalValue(_)
DecimalValue(s) ==
    IF s = <<>> THEN 0 ELSE 10 * DecimalValue(SubSeq(s, 1, Len(s) - 1)) + DigitValue(s[Len(s)])

\* Number(string): empty or blank text is 0, decimal digits are their value,
\* any other text over Chars is NaN.
StringToNumber(s) ==
    LET t == TrimEnd(TrimStart(s))
    IN  IF t = <<>> THEN Num(0)
        ELSE IF \A i \in 1..Len(t) : t[i] \in Digits THEN Num(DecimalValue(t))
        ELSE NaN

\* Number(v)
Number(v) ==
    CASE v.t = "undefined" -> NaN
      [] v.t = "null" -> Num(0)
      [] v.t = "boolean" -> IF v.b THEN Num(1) ELSE Num(0)
      [] v.t = "number" -> v
      [] v.t = "string" -> StringToNumber(v.s)

\* a > b and a >= b on numbers: false when either side is NaN.
GreaterThan(a, b) == a # NaN /\ b # NaN /\ a.n > b.n
GreaterThanOrEqual(a, b) == a # NaN /\ b # NaN /\ a.n >= b.n

\* drawing.data[name]: undefined for a key the record does not have.
DataValue(drawing, name) ==
    IF name \in DOMAIN drawing.data THEN drawing.data[name] ELSE Undefined

IsEmptyValue(v) == v = Undefined \/ v = Null \/ v = Str(<<>>)

\* value == literal in the place of value === literal
LooseEquals(value, literal) == Number(value) = Number(literal)

\* value === true, value === false
StrictEquals(value, literal) == value = literal

\* The switch of matchesFilter over the operator, for the value read from the
\* record.
OperatorResult(value, filter) ==
    LET filterValue == OrEmpty(filter.value).s
        text == toLowerCase(String(OrEmpty(value)))
    IN  CASE filter.operator = "EQUALS" -> text = toLowerCase(filterValue)
          [] filter.operator = "NOT_EQUALS" -> text # toLowerCase(filterValue)
          [] filter.operator = "CONTAINS" -> StringIncludes(text, toLowerCase(filterValue))
          [] filter.operator = "GREATER_THAN" ->
                GreaterThan(Number(value), Number(Str(filterValue)))
          [] filter.operator = "LESS_THAN" ->
                GreaterThan(Number(Str(filterValue)), Number(value))
          [] filter.operator = "GREATER_THAN_OR_EQUAL" ->
                GreaterThanOrEqual(Number(value), Number(Str(filterValue)))
          [] filter.operator = "LESS_THAN_OR_EQUAL" ->
                GreaterThanOrEqual(Number(Str(filterValue)), Number(value))
          [] filter.operator = "IS_TRUE" -> StrictEquals(value, Bool(TRUE))
          [] filter.operator = "IS_FALSE" -> StrictEquals(value, Bool(FALSE))
          [] filter.operator = "IS_EMPTY" -> IsEmptyValue(value)
          [] filter.operator = "IS_NOT_EMPTY" -> ~IsEmptyValue(value)
          [] OTHER -> TRUE

matchesFilterFailClosed(drawing, filter, cols) ==
    LET column == FindColumn(cols, filter.columnId)
    IN  IF column = Undefined THEN FALSE
        ELSE OperatorResult(DataValue(drawing, column.name), filter)

matchesFilter(drawing, filter, cols) ==
    LET column == FindColumn(cols, filter.columnId)
    IN  IF column = Undefined THEN TRUE
        ELSE OperatorResult(DataValue(drawing, column.name), filter)

\* filters.some(...) in the place of filters.every(...)
Some(drawing, fs, cols) == \E k \in 1..Len(fs) : matchesFilter(drawing, fs[k], cols)

\* filters.every((filter) => matchesFilter(drawing, filter, columns))
RECURSIVE Every(_, _, _)
Every(drawing, fs, cols) ==
    IF fs = <<>> THEN TRUE
    ELSE IF ~matchesFilter(drawing, Head(fs), cols) THEN FALSE
    ELSE Every(drawing, Tail(fs), cols)

filterDrawings(ds, fs, cols) ==
    IF Len(fs) = 0 THEN ds
    ELSE SelectSeq(ds, LAMBDA d : Every(d, fs, cols))

(***************************************************************************)
(* calculateAggregation.  Its result is a number or a string: the count,   *)
(* the sum, the text of toFixed(2), or "-".  The numbers of the model are  *)
(* non-negative integers.                                                  *)
(***************************************************************************)
\* filteredDrawings.map((d) => d.data[column.name]) with no filter on it
AllValues(ds, name) == [i \in 1..Len(ds) |-> DataValue(ds[i], name)]

\* filteredDrawings.map((d) => d.data[column.name])
\*                 .filter((v) => v !== undefined && v !== null && v !== '')
NonEmptyValues(ds, name) ==
    SelectSeq([i \in 1..Len(ds) |-> DataValue(ds[i], name)], LAMBDA v : ~IsEmptyValue(v))

\* Number(v) || 0
NumberOrZero(v) == IF Number(v) = NaN THEN 0 ELSE Number(v).n

\* values.reduce((acc, v) => acc + (Number(v) || 0), 0)
RECURSIVE SumOf(_)
SumOf(values) == IF values = <<>> THEN 0 ELSE NumberOrZero(Head(values)) + SumOf(Tail(values))

\* (p / q).toFixed(2) for p >= 0, q > 0: the nearest multiple of 1/100, the
\* larger one of two equally near, with two digits after the point.
toFixed2(p, q) ==
    LET hundredths == (200 * p + q) \div (2 * q)
        cents == hundredths % 100
    IN  DigitsOf(hundredths \div 100) \o <<".">>
            \o (IF cents < 10 THEN <<"0">> ELSE <<>>) \o DigitsOf(cents)

\* values.map(Number).filter((n) => !isNaN(n))
Nums(values) ==
    SelectSeq([i \in 1..Len(values) |-> Number(values[i])], LAMBDA n : n # NaN)

\* Math.min(...nums), Math.max(...nums) of a non-empty list
MathMin(nums) == CHOOSE m \in {nums[i].n : i \in 1..Len(nums)} :
                     \A i \in 1..Len(nums) : m <= nums[i].n
MathMax(nums) == CHOOSE m \in {nums[i].n : i \in 1..Len(nums)} :
                     \A i \in 1..Len(nums) : m >= nums[i].n

\* values.filter((v) => v == literal).length
CountLooseEquals(values, literal) ==
    Len(SelectSeq(values, LAMBDA v : LooseEquals(v, literal)))

\* values.filter((v) => v === literal).length
CountEquals(values, literal) ==
    Len(SelectSeq(values, LAMBDA v : StrictEquals(v, literal)))

\* The switch of calculateAggregation over the aggregation.
Aggregate(values, aggregation) ==
    CASE aggregation = "COUNT" -> Num(Len(values))
      [] aggregation = "SUM" ->
            \* Number.isInteger(sum) holds for every sum of integers
            Num(SumOf(values))
      [] aggregation = "AVERAGE" ->
            IF Len(values) = 0 THEN Num(0)
            ELSE Str(toFixed2(SumOf(values), Len(values)))
      [] aggregation = "MIN" ->
            IF Len(Nums(values)) > 0 THEN Num(MathMin(Nums(values))) ELSE Str(<<"-">>)
      [] aggregation = "MAX" ->
            IF Len(Nums(values)) > 0 THEN Num(MathMax(Nums(values))) ELSE Str(<<"-">>)
      [] aggregation = "COUNT_TRUE" -> Num(CountEquals(values, Bool(TRUE)))
      [] aggregation = "COUNT_FALSE" -> Num(CountEquals(values, Bool(FALSE)))
      [] OTHER -> Num(0)

\* filters.length > 0 ? [...filters] : undefined, as a card stores its filters
CardFilters(fs) == IF Len(fs) > 0 THEN Arr(fs) ELSE Undefined

\* filters ?? []
OrNoFilters(fs) == IF fs = Undefined THEN <<>> ELSE fs.items

\* The aggregation of all the records, the filters ignored.
calculateAggregationUnfiltered(ds, column, aggregation, fs, cols) ==
    Aggregate(NonEmptyValues(ds, column.name), aggregation)

calculateAggregation(ds, column, aggregation, fs, cols) ==
    LET filteredDrawings == filterDrawings(ds, OrNoFilters(fs), cols)
    IN  Aggregate(NonEmptyValues(filteredDrawings, column.name), aggregation)

(***************************************************************************)
(* Persistence: the three localStorage keys of a job, JSON text.           *)
(***************************************************************************)
\* One cards key shared by every job.
getSharedStorageKey(j) == "job-stats-config-j1"

getStorageKey(j) == "job-stats-config-" \o j
getCollapseKey(j) == "job-stats-collapsed-" \o j
getGroupsKey(j) == "job-stats-groups-" \o j

StorageKeys == {getStorageKey(j) : j \in Jobs} \cup {getCollapseKey(j) : j \in Jobs}
                   \cup {getGroupsKey(j) : j \in Jobs}

\* JSON.stringify of a value the components save: the JSON text of that value
\* (a card's filters: undefined is dropped by stringify and read back as
\* undefined; the empty sequence stands for it on both sides).
JSONstringify(v) == Json(v)

\* String(newState) of toggleCollapse: "true" or "false".
StringOfBoolean(b) == Json(NonArray(IF b THEN "true" ELSE "false"))

\* One branch of a load effect: `if (saved) { try { set(JSON.parse(saved)) }
\* catch { set([]) } }`. With nothing stored the state is left as it is.
LoadedState(saved, current) ==
    IF saved.t = "absent" THEN current
    ELSE IF saved.t = "invalid" THEN EmptyArr
    ELSE saved.v

\* A write that stores nothing.
dropItem(store, key, text) == store

setItem(store, key, text) == [store EXCEPT ![key] = text]

(***************************************************************************)
(* What the two components render.                                         *)
(***************************************************************************)
InAnyGroup(gs, cardId) == \E i \in 1..Len(gs) : Includes(gs[i].cardIds, cardId)

\* cards.filter((c) => !groups.some((g) => g.cardIds.includes(c.id)))
ungroupedCards(cs, gs) == SelectSeq(cs, LAMBDA c : ~InAnyGroup(gs, c.id))

CardIds(cs) == {cs[i].id : i \in 1..Len(cs)}
GroupIds(gs) == {gs[i].id : i \in 1..Len(gs)}

\* The configurator's render throws (cards.filter, groups.some, groups.length on
\* a value that is no array): the component is in an error state.
ConfiguratorRenderThrows ==
    \/ ~IsArray(cards)
    \/ /\ ~IsArray(groups)
       /\ (Len(cards.items) > 0 \/ groups.kind = "null")

\* The strip's render throws: cards.filter on a non-array, or groups.some on a
\* non-array once there is a card to test.
StripRenderThrows ==
    \/ ~IsArray(stripCards)
    \/ ~IsArray(stripGroups) /\ Len(stripCards.items) > 0

PageRendered == ~ConfiguratorRenderThrows /\ ~StripRenderThrows

\* availableAggregations of the configurator for a selected column.
availableAggregations(sel) ==
    LET column == FindColumn(columns, sel)
    IN  IF column = Undefined THEN <<"COUNT">> ELSE getAggregationsForType(column.type)

\* No effect after a change of the selected column: the aggregation stays.
KeepAggregation(sel, agg) == agg

\* The effect that follows a change of the selected column: an aggregation the
\* column does not allow is replaced by the first one it allows.
ResetAggregation(sel, agg) ==
    IF Includes(availableAggregations(sel), agg) THEN agg ELSE availableAggregations(sel)[1]

(***************************************************************************)
(* StatCardConfigurator: the add-card form.                                *)
(***************************************************************************)
SetSelectedColumn(c) ==
    /\ PageRendered
    /\ Len(columns) > 0
    /\ selectedColumn' = c
    /\ selectedAggregation' = ResetAggregation(c, selectedAggregation)
    /\ lastOp' = "input"
    /\ UNCHANGED <<jobId, columns, localStorage, cards, groups, cardTitle, filters,
                   groupName, selectedCardsForGroup, stripVars, cardUuids, groupUuids,
                   evalVars>>

SetSelectedAggregation(a) ==
    /\ PageRendered
    /\ selectedColumn # ""
    /\ Includes(availableAggregations(selectedColumn), a)
    /\ selectedAggregation' = a
    /\ lastOp' = "input"
    /\ UNCHANGED <<jobId, columns, localStorage, cards, groups, selectedColumn, cardTitle,
                   filters, groupName, selectedCardsForGroup, stripVars, cardUuids,
                   groupUuids, evalVars>>

SetCardTitle(t) ==
    /\ PageRendered
    /\ selectedColumn # ""
    /\ cardTitle' = t
    /\ lastOp' = "input"
    /\ UNCHANGED <<jobId, columns, localStorage, cards, groups, selectedColumn,
                   selectedAggregation, filters, groupName, selectedCardsForGroup,
                   stripVars, cardUuids, groupUuids, evalVars>>

\* filters.map((f) => columns.find(...)?.name ?? '').join(',')
RECURSIVE FilterDesc(_)
FilterDesc(fs) ==
    IF fs = <<>> THEN ""
    ELSE LET col == FindColumn(columns, Head(fs).columnId)
             name == IF col = Undefined THEN "" ELSE col.name
         IN  IF Len(fs) = 1 THEN name ELSE name \o "," \o FilterDesc(Tail(fs))

defaultTitle(column) ==
    IF Len(filters) > 0
    THEN aggregationLabels[selectedAggregation] \o " (" \o FilterDesc(filters) \o ")"
    ELSE aggregationLabels[selectedAggregation] \o " " \o column.name

\* crypto.randomUUID() at the two places that draw one: a token never drawn before.
\* A generator that returns one token again and again.
RepeatedUuid(n) == <<"card", 1>>

CardUuid(n) == <<"card", n>>
GroupUuid(n) == <<"group", n>>

HandleAddCard ==
    /\ PageRendered
    /\ Len(columns) > 0
    /\ lastOp' = "handleAddCard"
    /\ LET column == FindColumn(columns, selectedColumn)
       IN  IF selectedColumn = "" \/ column = Undefined
           THEN UNCHANGED <<cards, localStorage, cardTitle, selectedColumn,
                            selectedAggregation, filters, cardUuids>>
           ELSE LET newCard == [id |-> CardUuid(cardUuids + 1),
                                title |-> IF cardTitle # "" THEN cardTitle
                                          ELSE defaultTitle(column),
                                columnId |-> selectedColumn,
                                aggregation |-> selectedAggregation,
                                filters |-> CardFilters(filters)]
                    newCards == cards.items \o <<newCard>>
                IN  /\ cardUuids' = cardUuids + 1
                    /\ cards' = Arr(newCards)
                    /\ localStorage' = setItem(localStorage, getStorageKey(jobId),
                                               JSONstringify(Arr(newCards)))
                    /\ cardTitle' = ""
                    /\ selectedColumn' = ""
                    /\ selectedAggregation' = ResetAggregation("", selectedAggregation)
                    /\ filters' = <<>>
    /\ UNCHANGED <<jobId, columns, groups, groupName, selectedCardsForGroup, stripVars,
                   groupUuids, evalVars>>

(***************************************************************************)
(* StatCardConfigurator: cards and groups.                                 *)
(***************************************************************************)
\* groups.map((g) => ({...g, cardIds: g.cardIds.filter((id) => id !== cardId)}))
\*       .filter((g) => g.cardIds.length > 0)
GroupsWithoutCard(gs, cardId) ==
    LET stripped == [i \in 1..Len(gs) |->
                        [gs[i] EXCEPT !.cardIds = Without(gs[i].cardIds, cardId)]]
    IN  SelectSeq(stripped, LAMBDA g : Len(g.cardIds) > 0)

\* A removal that empties the card list whatever card it is asked to remove.
HandleRemoveEveryCard(cardId) ==
    /\ PageRendered
    /\ cardId \in CardIds(cards.items)
    /\ cards' = Arr(<<>>)
    /\ groups' = Arr(<<>>)
    /\ localStorage' =
         setItem(setItem(localStorage, getStorageKey(jobId), JSONstringify(Arr(<<>>))),
                 getGroupsKey(jobId), JSONstringify(Arr(<<>>)))
    /\ lastOp' = "handleRemoveCard"
    /\ UNCHANGED <<jobId, columns, selectedColumn, selectedAggregation, cardTitle, filters,
                   groupName, selectedCardsForGroup, stripVars, cardUuids, groupUuids,
                   evalVars>>

HandleRemoveCard(cardId) ==
    /\ PageRendered
    /\ cardId \in CardIds(cards.items)
    /\ LET newCards == SelectSeq(cards.items, LAMBDA c : c.id # cardId)
           newGroups == GroupsWithoutCard(groups.items, cardId)
       IN  /\ cards' = Arr(newCards)
           /\ groups' = Arr(newGroups)
           /\ localStorage' =
                setItem(setItem(localStorage, getStorageKey(jobId),
                                JSONstringify(Arr(newCards))),
                        getGroupsKey(jobId), JSONstringify(Arr(newGroups)))
    /\ lastOp' = "handleRemoveCard"
    /\ UNCHANGED <<jobId, columns, selectedColumn, selectedAggregation, cardTitle, filters,
                   groupName, selectedCardsForGroup, stripVars, cardUuids, groupUuids,
                   evalVars>>

\* The "Create Group" row is rendered while two or more cards are ungrouped.
CreateGroupRendered == Len(ungroupedCards(cards.items, groups.items)) >= 2

SetGroupName(n) ==
    /\ PageRendered
    /\ CreateGroupRendered
    /\ groupName' = n
    /\ lastOp' = "input"
    /\ UNCHANGED <<jobId, columns, localStorage, cards, groups, selectedColumn,
                   selectedAggregation, cardTitle, filters, selectedCardsForGroup,
                   stripVars, cardUuids, groupUuids, evalVars>>

isInGroupNever(gs, cardId) == FALSE

\* isInGroup of a rendered card: its select button is disabled while it holds.
isInGroup(gs, cardId) == InAnyGroup(gs, cardId)

ToggleCardSelection(cardId) ==
    /\ PageRendered
    /\ cardId \in CardIds(cards.items)
    /\ ~isInGroup(groups.items, cardId)
    /\ selectedCardsForGroup' =
            IF Includes(selectedCardsForGroup, cardId)
            THEN Without(selectedCardsForGroup, cardId)
            ELSE selectedCardsForGroup \o <<cardId>>
    /\ lastOp' = "input"
    /\ UNCHANGED <<jobId, columns, localStorage, cards, groups, selectedColumn,
                   selectedAggregation, cardTitle, filters, groupName, stripVars,
                   cardUuids, groupUuids, evalVars>>

CreateGroupRejectedBelowOne(name, selected) == name = "" \/ Len(selected) < 1

\* The guard of handleCreateGroup (the Group button is disabled on the same
\* condition, so a press that does nothing and an early return are one case).
CreateGroupRejected(name, selected) == name = "" \/ Len(selected) < 2

\* The group handleCreateGroup builds.
NewGroup(id, name, selected) == [id |-> id, name |-> name, cardIds |-> selected]

HandleCreateGroup ==
    /\ PageRendered
    /\ CreateGroupRendered
    /\ lastOp' = "handleCreateGroup"
    /\ IF CreateGroupRejected(groupName, selectedCardsForGroup)
       THEN UNCHANGED <<groups, localStorage, groupName, selectedCardsForGroup, groupUuids>>
       ELSE LET newGroups == groups.items \o
                    <<NewGroup(GroupUuid(groupUuids + 1), groupName, selectedCardsForGroup)>>
            IN  /\ groupUuids' = groupUuids + 1
                /\ groups' = Arr(newGroups)
                /\ localStorage' = setItem(localStorage, getGroupsKey(jobId),
                                           JSONstringify(Arr(newGroups)))
                /\ groupName' = ""
                /\ selectedCardsForGroup' = <<>>
    /\ UNCHANGED <<jobId, columns, cards, selectedColumn, selectedAggregation, cardTitle,
                   filters, stripVars, cardUuids, evalVars>>

HandleRemoveGroup(groupId) ==
    /\ PageRendered
    /\ groupId \in GroupIds(groups.items)
    /\ LET newGroups == SelectSeq(groups.items, LAMBDA g : g.id # groupId)
       IN  /\ groups' = Arr(newGroups)
           /\ localStorage' = setItem(localStorage, getGroupsKey(jobId),
                                      JSONstringify(Arr(newGroups)))
    /\ lastOp' = "handleRemoveGroup"
    /\ UNCHANGED <<jobId, columns, cards, selectedColumn, selectedAggregation, cardTitle,
                   filters, groupName, selectedCardsForGroup, stripVars, cardUuids,
                   groupUuids, evalVars>>

\* Drag of card `active` onto card `over` in the configurator; NoTarget is a
\* drop outside every card (event.over is null).
NoTarget == <<"none", 0>>

HandleDragEnd(active, over) ==
    /\ PageRendered
    /\ active \in CardIds(cards.items)
    /\ over \in CardIds(cards.items) \cup {NoTarget}
    /\ lastOp' = "handleDragEnd"
    /\ IF over # NoTarget /\ active # over
       THEN LET oldIndex == FindIndex(cards.items, active)
                newIndex == FindIndex(cards.items, over)
                moved == arrayMove(cards.items, oldIndex, newIndex)
            IN  /\ cards' = Arr(moved)
                /\ localStorage' = setItem(localStorage, getStorageKey(jobId),
                                           JSONstringify(Arr(moved)))
       ELSE UNCHANGED <<cards, localStorage>>
    /\ UNCHANGED <<jobId, columns, groups, selectedColumn, selectedAggregation, cardTitle,
                   filters, groupName, selectedCardsForGroup, stripVars, cardUuids,
                   groupUuids, evalVars>>

(***************************************************************************)
(* JobStatCards: the strip on the job page.                                *)
(***************************************************************************)
\* The page mounts the strip only while the job has columns.
StripMounted == Len(columns) > 0

\* The cards the strip offers for dragging: ungrouped, with a live column.
StripDraggable ==
    {c.id : c \in {x \in Range(ungroupedCards(stripCards.items, stripGroups.items)) :
                        FindColumn(columns, x.columnId) # Undefined}}

StripHandleDragEnd(active, over) ==
    /\ PageRendered
    /\ StripMounted
    /\ ~isCollapsed
    /\ active \in StripDraggable
    /\ over \in StripDraggable \cup {NoTarget}
    /\ lastOp' = "stripHandleDragEnd"
    /\ IF over # NoTarget /\ active # over
       THEN LET oldIndex == FindIndex(stripCards.items, active)
                newIndex == FindIndex(stripCards.items, over)
                reordered == arrayMove(stripCards.items, oldIndex, newIndex)
            IN  /\ stripCards' = Arr(reordered)
                /\ localStorage' = setItem(localStorage, getStorageKey(jobId),
                                           JSONstringify(Arr(reordered)))
       ELSE UNCHANGED <<stripCards, localStorage>>
    /\ UNCHANGED <<jobId, columns, cfgVars, stripGroups, isCollapsed, cardUuids,
                   groupUuids, evalVars>>

\* The collapse trigger is rendered once the strip has a card.
toggleCollapse ==
    /\ PageRendered
    /\ StripMounted
    /\ Len(stripCards.items) > 0
    /\ isCollapsed' = ~isCollapsed
    /\ localStorage' = setItem(localStorage, getCollapseKey(jobId),
                               StringOfBoolean(~isCollapsed))
    /\ lastOp' = "toggleCollapse"
    /\ UNCHANGED <<jobId, columns, cfgVars, stripCards, stripGroups, cardUuids,
                   groupUuids, evalVars>>

(***************************************************************************)
(* The load effects of the two components, run for a job id.               *)
(***************************************************************************)
ConfiguratorLoad(j, cs, gs) ==
    /\ cards' = LoadedState(localStorage[getStorageKey(j)], cs)
    /\ groups' = LoadedState(localStorage[getGroupsKey(j)], gs)

StripLoad(j, cs, gs) ==
    /\ stripCards' = LoadedState(localStorage[getStorageKey(j)], cs)
    /\ stripGroups' = LoadedState(localStorage[getGroupsKey(j)], gs)
    /\ isCollapsed' = (localStorage[getCollapseKey(j)] = StringOfBoolean(TRUE))

\* The page is given another job id: both components keep their state and run
\* their load effect for the new id.
ChangeJobId(j) ==
    /\ PageRendered
    /\ j # jobId
    /\ jobId' = j
    /\ ConfiguratorLoad(j, cards, groups)
    /\ StripLoad(j, stripCards, stripGroups)
    /\ lastOp' = "load"
    /\ UNCHANGED <<columns, localStorage, selectedColumn, selectedAggregation, cardTitle,
                   filters, groupName, selectedCardsForGroup, cardUuids, groupUuids,
                   evalVars>>

\* The page is opened afresh on a job: both components start from their
\* useState initial values and run their load effect.
MountPage(j) ==
    /\ jobId' = j
    /\ ConfiguratorLoad(j, EmptyArr, EmptyArr)
    /\ StripLoad(j, EmptyArr, EmptyArr)
    /\ selectedColumn' = ""
    /\ selectedAggregation' = "COUNT"
    /\ cardTitle' = ""
    /\ filters' = <<>>
    /\ groupName' = ""
    /\ selectedCardsForGroup' = <<>>
    /\ lastOp' = "mount"
    /\ UNCHANGED <<columns, localStorage, cardUuids, groupUuids, evalVars>>

(***************************************************************************)
(* Initial state: the page opened on job j1 with nothing stored.           *)
(***************************************************************************)
InitialColumns ==
    <<[id |-> "c1", name |-> "n", type |-> ColumnType.NUMBER],
      [id |-> "c2", name |-> "done", type |-> ColumnType.BOOLEAN]>>

ColumnIds == {InitialColumns[i].id : i \in 1..Len(InitialColumns)}

NoEvaluation == [filtered |-> <<>>, matches |-> <<>>]

InitComponents ==
    /\ cards = EmptyArr
    /\ groups = EmptyArr
    /\ selectedColumn = ""
    /\ selectedAggregation = "COUNT"
    /\ cardTitle = ""
    /\ filters = <<>>
    /\ groupName = ""
    /\ selectedCardsForGroup = <<>>
    /\ stripCards = EmptyArr
    /\ stripGroups = EmptyArr
    /\ isCollapsed = FALSE
    /\ cardUuids = 0
    /\ groupUuids = 0

InitNoEvaluation ==
    /\ drawings = <<>>
    /\ evalFilters = <<>>
    /\ evalResult = NoEvaluation

Init ==
    /\ jobId = "j1"
    /\ columns = InitialColumns
    /\ localStorage = [k \in StorageKeys |-> Absent]
    /\ InitComponents
    /\ InitNoEvaluation
    /\ lastOp = "mount"

GroupNames == {"", "Totals"}

(***************************************************************************)
(* Spec: one job edited in the configurator (cards on the first column).   *)
(***************************************************************************)
FirstColumn == {InitialColumns[1].id}

Next ==
    \/ \E c \in FirstColumn : SetSelectedColumn(c)
    \/ cardUuids < MaxCards /\ HandleAddCard
    \/ \E id \in CardIds(cards.items) : HandleRemoveCard(id)
    \/ \E n \in GroupNames : SetGroupName(n)
    \/ \E id \in CardIds(cards.items) : ToggleCardSelection(id)
    \/ groupUuids < MaxGroups /\ HandleCreateGroup
    \/ \E id \in GroupIds(groups.items) : HandleRemoveGroup(id)
    \/ \E a \in CardIds(cards.items), o \in CardIds(cards.items) \cup {NoTarget} :
            HandleDragEnd(a, o)

Spec == Init /\ [][Next]_vars

(***************************************************************************)
(* SpecJobs: the configurator kept mounted while the page moves between    *)
(* two jobs. Job j1 holds cards saved on an earlier visit (handleAddCard   *)
(* on the first column, no title, no filters), job j2 holds nothing.       *)
(***************************************************************************)
SavedCard(i) == [id |-> CardUuid(i), title |-> "Count n", columnId |-> "c1",
                 aggregation |-> "COUNT", filters |-> Undefined]

SavedCards == [i \in 1..MaxJobCards |-> SavedCard(i)]

InitJobs ==
    /\ jobId = "j1"
    /\ columns = InitialColumns
    /\ localStorage = [k \in StorageKeys |->
                          IF k = getStorageKey("j1") THEN JSONstringify(Arr(SavedCards))
                          ELSE Absent]
    /\ cards = Arr(SavedCards)
    /\ groups = EmptyArr
    /\ selectedColumn = ""
    /\ selectedAggregation = "COUNT"
    /\ cardTitle = ""
    /\ filters = <<>>
    /\ groupName = ""
    /\ selectedCardsForGroup = <<>>
    /\ stripCards = Arr(SavedCards)
    /\ stripGroups = EmptyArr
    /\ isCollapsed = FALSE
    /\ cardUuids = MaxJobCards
    /\ groupUuids = 0
    /\ InitNoEvaluation
    /\ lastOp = "mount"

\* The cards the user picks for grouping in SpecJobs: the first two.
PickedCards == {CardUuid(1), CardUuid(2)}

NextJobs ==
    \/ \E n \in GroupNames : SetGroupName(n)
    \/ \E id \in PickedCards : ToggleCardSelection(id)
    \/ groupUuids < MaxJobGroups /\ HandleCreateGroup
    \/ \E id \in GroupIds(groups.items) : HandleRemoveGroup(id)
    \/ \E j \in Jobs : ChangeJobId(j)

SpecJobs == InitJobs /\ [][NextJobs]_vars

(***************************************************************************)
(* SpecLoad: both components over two jobs, where what is stored for job   *)
(* j2 was written by something else than these components.                 *)
(***************************************************************************)
MaxLoadCards == 2   \* SpecLoad: cards handleAddCard may create in one run

StoredTexts == {Absent, Invalid, Json(NonArray("null")), Json(NonArray("number")),
                Json(NonArray("object")), Json(EmptyArr)}

InitLoad ==
    /\ jobId = "j1"
    /\ columns = InitialColumns
    /\ \E c \in StoredTexts, g \in StoredTexts :
          localStorage = [k \in StorageKeys |->
                             IF k = getStorageKey("j2") THEN c
                             ELSE IF k = getGroupsKey("j2") THEN g
                             ELSE Absent]
    /\ InitComponents
    /\ InitNoEvaluation
    /\ lastOp = "mount"

NextLoad ==
    \/ \E c \in FirstColumn : SetSelectedColumn(c)
    \/ cardUuids < MaxLoadCards /\ HandleAddCard
    \/ \E id \in CardIds(cards.items) : HandleRemoveCard(id)
    \/ \E j \in Jobs : ChangeJobId(j)
    \/ \E j \in Jobs : MountPage(j)
    \/ \E a \in StripDraggable, o \in StripDraggable \cup {NoTarget} :
            StripHandleDragEnd(a, o)
    \/ toggleCollapse

SpecLoad == InitLoad /\ [][NextLoad]_vars

(***************************************************************************)
(* SpecGroups: the configurator on one job that holds saved cards: every   *)
(* grouping, removal and reordering of them.                               *)
(***************************************************************************)
NextGroups ==
    \/ \E id \in CardIds(cards.items) : HandleRemoveCard(id)
    \/ \E n \in GroupNames : SetGroupName(n)
    \/ \E id \in CardIds(cards.items) : ToggleCardSelection(id)
    \/ groupUuids < MaxJobGroups /\ HandleCreateGroup
    \/ \E id \in GroupIds(groups.items) : HandleRemoveGroup(id)
    \/ \E a \in CardIds(cards.items), o \in CardIds(cards.items) \cup {NoTarget} :
            HandleDragEnd(a, o)

SpecGroups == InitJobs /\ [][NextGroups]_vars

(***************************************************************************)
(* Claims on the card/group configuration.                                 *)
(***************************************************************************)
GroupsOf(cardId) == {i \in 1..Len(groups.items) : Includes(groups.items[i].cardIds, cardId)}

\* C1: every existing group has at least 2 member card ids (removeCard on a
\* member of a 2-member group deletes the group).
C1_GroupsHaveTwoMembers ==
    \A i \in 1..Len(groups.items) : Len(groups.items[i].cardIds) >= 2

\* C2: every id in every group's cardIds is the id of a card in the cards list.
C2_GroupMembersExist ==
    \A i \in 1..Len(groups.items) :
        Range(groups.items[i].cardIds) \subseteq CardIds(cards.items)

\* C3: handleCreateGroup called with a selection of which some id is already a
\* member of a group is rejected: cards, groups and storage stay as they were.
C3_GroupedCardRejected ==
    [][(/\ lastOp' = "handleCreateGroup"
        /\ \E k \in 1..Len(selectedCardsForGroup) :
               InAnyGroup(groups.items, selectedCardsForGroup[k]))
       => (cards' = cards /\ groups' = groups /\ localStorage' = localStorage)]_vars

\* C4: handleCreateGroup with an empty name or fewer than 2 selected ids leaves
\* groups, cards, the name input, the selection and storage unchanged; otherwise
\* it appends exactly one group, with an id no group or card has, whose cardIds
\* are the selected ids.
C4_CreateGroupContract ==
    [][lastOp' = "handleCreateGroup" =>
        IF groupName = "" \/ Len(selectedCardsForGroup) < 2
        THEN UNCHANGED <<groups, cards, groupName, selectedCardsForGroup, localStorage>>
        ELSE /\ Len(groups'.items) = Len(groups.items) + 1
             /\ SubSeq(groups'.items, 1, Len(groups.items)) = groups.items
             /\ LET g == groups'.items[Len(groups'.items)]
                IN  /\ g.cardIds = selectedCardsForGroup
                    /\ g.id \notin GroupIds(groups.items) \cup CardIds(cards.items)
                    /\ \A j \in Jobs : localStorage[getGroupsKey(j)].t = "json" =>
                           g.id \notin GroupIds(localStorage[getGroupsKey(j)].v.items)
             /\ cards' = cards]_vars

\* C4 witness: a call rejected for a selection of one card, made while a group
\* created by an earlier call exists.
C4_Witness ==
    /\ lastOp = "handleCreateGroup"
    /\ Len(selectedCardsForGroup) = 1
    /\ groupName # ""
    /\ Len(groups.items) >= 1

\* C5: each card id appears in the cardIds of at most one group.
C5_AtMostOneGroup ==
    \A id \in UNION {Range(groups.items[i].cardIds) : i \in 1..Len(groups.items)} :
        Cardinality(GroupsOf(id)) <= 1

\* C5 witness: two groups exist at once.
C5_Witness ==
    /\ Len(groups.items) = 2
    /\ \A i \in 1..2 : Len(groups.items[i].cardIds) >= 2

\* C6: after a load for a job id that has nothing stored, the cards and groups
\* of both components are empty.
C6_UnsavedJobLoadsEmpty ==
    (/\ lastOp \in {"load", "mount"}
     /\ localStorage[getStorageKey(jobId)] = Absent
     /\ localStorage[getGroupsKey(jobId)] = Absent)
    => (/\ cards = EmptyArr /\ groups = EmptyArr
        /\ stripCards = EmptyArr /\ stripGroups = EmptyArr)

\* A stored text that is no JSON text of a list.
Malformed(text) == text.t = "invalid" \/ (text.t = "json" /\ ~IsArray(text.v))

\* C7: after a load of malformed stored content the configuration is empty and
\* no component is in an error state.
C7_MalformedLoadsEmpty ==
    lastOp \in {"load", "mount"} =>
        /\ Malformed(localStorage[getStorageKey(jobId)]) =>
               cards = EmptyArr /\ stripCards = EmptyArr
        /\ Malformed(localStorage[getGroupsKey(jobId)]) =>
               groups = EmptyArr /\ stripGroups = EmptyArr
        /\ (Malformed(localStorage[getStorageKey(jobId)])
              \/ Malformed(localStorage[getGroupsKey(jobId)])) => PageRendered

(***************************************************************************)
(* The evaluator applied to records and condition lists.                   *)
(***************************************************************************)
\* What filterDrawings returns for the records and conditions, and what
\* matchesFilter returns for each record and each condition.
Evaluation(ds, fs) ==
    [filtered |-> filterDrawings(ds, fs, columns),
     matches |-> [i \in 1..Len(ds) |->
                     [k \in 1..Len(fs) |-> matchesFilter(ds[i], fs[k], columns)]]]

Evaluate(fs) ==
    /\ evalFilters' = fs
    /\ evalResult' = Evaluation(drawings, fs)
    /\ lastOp' = "filterDrawings"
    /\ UNCHANGED <<jobId, columns, localStorage, cfgVars, stripVars, cardUuids,
                   groupUuids, drawings>>

\* A record whose data holds v under the name of the first column; a record
\* without that key for undefined.
Drawing(id, v) ==
    [id |-> id, data |-> IF v = Undefined THEN <<>> ELSE [n |-> v]]

Strings == UNION {[1..k -> Chars] : k \in 0..MaxStrLen}
NumberValues == {0, 1, 5, 6}
BooleanTexts == {<<"t", "r", "u", "e">>, <<"f", "a", "l", "s", "e">>}
RecordValues == {Undefined, Null} \cup {Str(s) : s \in Strings \cup BooleanTexts}
                    \cup {Num(n) : n \in NumberValues} \cup {Bool(b) : b \in BOOLEAN}
FilterValues == {Undefined} \cup {Str(s) : s \in Strings}

Condition(c, op, v) == [columnId |-> c, operator |-> op, value |-> v]

\* "c9" is the id of no column.
Conditions == {Condition(c, op, v) : c \in {"c1", "c9"}, op \in FilterOperator,
                                     v \in FilterValues}

InitEvaluator ==
    /\ jobId = "j1"
    /\ columns = InitialColumns
    /\ localStorage = [k \in StorageKeys |-> Absent]
    /\ InitComponents
    /\ evalFilters = <<>>
    /\ evalResult = NoEvaluation
    /\ lastOp = "mount"

(***************************************************************************)
(* SpecEval: one record against one condition, for every value, operator   *)
(* and filter value.                                                       *)
(***************************************************************************)
InitEval ==
    /\ InitEvaluator
    /\ \E v \in RecordValues : drawings = <<Drawing(1, v)>>

\* One application per run: the evaluator keeps no state between calls.
NextEval == evalResult = NoEvaluation /\ \E c \in Conditions : Evaluate(<<c>>)

SpecEval == InitEval /\ [][NextEval]_vars

(***************************************************************************)
(* SpecFilter: lists of records against lists of conditions.               *)
(***************************************************************************)
SampleValues == {Undefined, Str(<<"a">>), Num(5), Bool(TRUE)}

SampleConditions ==
    {Condition("c1", "EQUALS", Str(<<"A">>)),
     Condition("c1", "GREATER_THAN", Str(<<" ">>)),
     Condition("c1", "IS_NOT_EMPTY", Undefined)}
    \cup {Condition("c9", op, Str(<<"5">>)) : op \in FilterOperator}

SeqsUpTo(S, n) == UNION {[1..k -> S] : k \in 0..n}

InitFilter ==
    /\ InitEvaluator
    /\ \E vs \in SeqsUpTo(SampleValues, MaxDrawings) :
          drawings = [i \in 1..Len(vs) |-> Drawing(i, vs[i])]

NextFilter ==
    evalResult = NoEvaluation /\ \E fs \in SeqsUpTo(SampleConditions, MaxFilters) : Evaluate(fs)

SpecFilter == InitFilter /\ [][NextFilter]_vars

(***************************************************************************)
(* Claims on the filter evaluator.                                         *)
(***************************************************************************)
Dangling(f) == FindColumn(columns, f.columnId) = Undefined

\* C8: a condition whose columnId matches no column evaluates to true for every
\* record; a list of such conditions only returns the input, and such a condition
\* in a list does not change what the list returns without it.
C8_DanglingConditionIsTrue ==
    lastOp = "filterDrawings" =>
        /\ \A i \in 1..Len(drawings), k \in 1..Len(evalFilters) :
               Dangling(evalFilters[k]) => evalResult.matches[i][k]
        /\ (\A k \in 1..Len(evalFilters) : Dangling(evalFilters[k])) =>
               evalResult.filtered = drawings
        /\ \A k \in 1..Len(evalFilters) :
               Dangling(evalFilters[k]) =>
                   evalResult.filtered =
                       filterDrawings(drawings, RemoveAt(evalFilters, k), columns)

\* C8 witness: a dangling condition listed with a live one that drops a record
\* and keeps another.
C8_Witness ==
    /\ lastOp = "filterDrawings"
    /\ Len(evalFilters) = 2
    /\ Dangling(evalFilters[1]) /\ ~Dangling(evalFilters[2])
    /\ Len(evalResult.filtered) = 1
    /\ Len(drawings) = 2

\* C9: a record is kept exactly when every condition is true for it, the kept
\* records keep their input order, and an empty list returns the input.
KeptIndices == {i \in 1..Len(drawings) :
                   \A k \in 1..Len(evalFilters) : evalResult.matches[i][k]}

NthKept(p) == CHOOSE i \in KeptIndices : Cardinality({j \in KeptIndices : j < i}) = p - 1

C9_FilterIsConjunction ==
    lastOp = "filterDrawings" =>
        /\ Len(evalResult.filtered) = Cardinality(KeptIndices)
        /\ \A p \in 1..Len(evalResult.filtered) :
               evalResult.filtered[p] = drawings[NthKept(p)]
        /\ evalFilters = <<>> => evalResult.filtered = drawings

\* C9 witness: two conditions of which a record meets one only, and a record
\* that meets both.
C9_Witness ==
    /\ lastOp = "filterDrawings"
    /\ Len(evalFilters) = 2
    /\ Len(drawings) = 2
    /\ Len(evalResult.filtered) = 1
    /\ \E i \in 1..2 : evalResult.matches[i][1] /\ ~evalResult.matches[i][2]

\* A value that is a number: a number, or text that is decimal digits.
IsNumeric(v) ==
    \/ v.t = "number"
    \/ /\ v.t = "string"
       /\ TrimEnd(TrimStart(v.s)) # <<>>
       /\ \A i \in 1..Len(TrimEnd(TrimStart(v.s))) : TrimEnd(TrimStart(v.s))[i] \in Digits

NumericValue(v) == IF v.t = "number" THEN v.n ELSE DecimalValue(TrimEnd(TrimStart(v.s)))

Compare(op, a, b) ==
    CASE op = "GREATER_THAN" -> a > b
      [] op = "LESS_THAN" -> a < b
      [] op = "GREATER_THAN_OR_EQUAL" -> a >= b
      [] op = "LESS_THAN_OR_EQUAL" -> a <= b

OrderingOperators == {"GREATER_THAN", "LESS_THAN", "GREATER_THAN_OR_EQUAL",
                      "LESS_THAN_OR_EQUAL"}

\* C10: an ordering operator is false whenever the record's value or the filter
\* value is not a number, and the numeric comparison of the two otherwise.
C10_OrderingNeedsNumbers ==
    (/\ lastOp = "filterDrawings"
     /\ Len(drawings) = 1 /\ Len(evalFilters) = 1
     /\ evalFilters[1].operator \in OrderingOperators
     /\ ~Dangling(evalFilters[1]))
    => LET value == DataValue(drawings[1], "n")
           filterValue == evalFilters[1].value
       IN  evalResult.matches[1][1] =
               (/\ IsNumeric(value)
                /\ IsNumeric(filterValue)
                /\ Compare(evalFilters[1].operator, NumericValue(value),
                           NumericValue(filterValue)))

(***************************************************************************)
(* SpecEmpty: the three empty values of one column against every           *)
(* condition.                                                              *)
(***************************************************************************)
EmptyValues == <<Undefined, Null, Str(<<>>)>>

InitEmpty ==
    /\ InitEvaluator
    /\ drawings = [i \in 1..Len(EmptyValues) |-> Drawing(i, EmptyValues[i])]

NextEmpty == \E c \in Conditions : Evaluate(<<c>>)

SpecEmpty == InitEmpty /\ [][NextEmpty]_vars

\* C11: for every operator and every filter value the evaluator returns the same
\* boolean for an absent value, for null and for the empty string.
C11_EmptyValuesUniform ==
    (/\ lastOp = "filterDrawings"
     /\ Len(drawings) = Len(EmptyValues)
     /\ \A i \in 1..Len(drawings) : DataValue(drawings[i], "n") = EmptyValues[i]
     /\ Len(evalFilters) = 1)
    => \A i, j \in 1..Len(drawings) : evalResult.matches[i][1] = evalResult.matches[j][1]

\* C12: IS_TRUE is true exactly on the boolean true and IS_FALSE exactly on the
\* boolean false, whatever value the condition stores.
C12_StrictBooleanOperators ==
    (/\ lastOp = "filterDrawings"
     /\ Len(drawings) = 1 /\ Len(evalFilters) = 1
     /\ ~Dangling(evalFilters[1]))
    => LET value == DataValue(drawings[1], "n")
       IN  /\ evalFilters[1].operator = "IS_TRUE" =>
                  evalResult.matches[1][1] = (value = Bool(TRUE))
           /\ evalFilters[1].operator = "IS_FALSE" =>
                  evalResult.matches[1][1] = (value = Bool(FALSE))

\* C12 witness: IS_TRUE, stored with a value, refuses the text "true".
C12_Witness ==
    /\ lastOp = "filterDrawings"
    /\ Len(drawings) = 1 /\ Len(evalFilters) = 1
    /\ DataValue(drawings[1], "n") = Str(<<"t", "r", "u", "e">>)
    /\ evalFilters[1] = Condition("c1", "IS_TRUE", Str(<<"a">>))
    /\ ~evalResult.matches[1][1]

(***************************************************************************)
(* SpecAggregate: every aggregation of one column over lists of records,   *)
(* without and with conditions.                                            *)
(***************************************************************************)
MaxRecords == 3

\* What calculateAggregation returns for each aggregation, next to what the
\* evaluator returns for the same records and conditions.
Calculation(ds, fs) ==
    [filtered |-> filterDrawings(ds, fs, columns),
     matches |-> [i \in 1..Len(ds) |->
                     [k \in 1..Len(fs) |-> matchesFilter(ds[i], fs[k], columns)]],
     aggregates |-> [a \in AggregationType |->
                        calculateAggregation(ds, columns[1], a, CardFilters(fs),
                                             columns)]]

Calculate(fs) ==
    /\ evalFilters' = fs
    /\ evalResult' = Calculation(drawings, fs)
    /\ lastOp' = "calculateAggregation"
    /\ UNCHANGED <<jobId, columns, localStorage, cfgVars, stripVars, cardUuids,
                   groupUuids, drawings>>

AggregateValues == {Undefined, Null, Str(<<>>), Str(<<" ">>), Str(<<"a">>), Str(<<"5">>),
                    Num(5), Num(10), Bool(TRUE), Bool(FALSE)}

AggregateFilters == {<<>>,
                     <<Condition("c1", "GREATER_THAN", Str(<<"6">>))>>,
                     <<Condition("c1", "IS_NOT_EMPTY", Undefined),
                       Condition("c1", "NOT_EQUALS", Str(<<"5">>))>>,
                     <<Condition("c9", "IS_TRUE", Undefined)>>}

InitAggregate ==
    /\ InitEvaluator
    /\ \E vs \in SeqsUpTo(AggregateValues, MaxRecords) :
          drawings = [i \in 1..Len(vs) |-> Drawing(i, vs[i])]

NextAggregate == evalResult = NoEvaluation /\ \E fs \in AggregateFilters : Calculate(fs)

SpecAggregate == InitAggregate /\ [][NextAggregate]_vars

(***************************************************************************)
(* Claims on calculateAggregation.                                         *)
(***************************************************************************)
\* The values the kept records hold in the aggregated column.
KeptValues == [i \in 1..Len(evalResult.filtered) |-> DataValue(evalResult.filtered[i], "n")]

Present == {i \in 1..Len(KeptValues) : ~IsEmptyValue(KeptValues[i])}

\* C13: COUNT without filters is the number of records whose value in the
\* column is not absent, not null and not the empty string.
C13_CountIsNonEmpty ==
    (lastOp = "calculateAggregation" /\ evalFilters = <<>>)
    => evalResult.aggregates["COUNT"] =
           Num(Cardinality({i \in 1..Len(drawings) :
                               LET v == DataValue(drawings[i], "n")
                               IN  v # Undefined /\ v # Null /\ v # Str(<<>>)}))

\* C13 witness: three records of which one is empty, counted without filters.
C13_Witness ==
    /\ lastOp = "calculateAggregation"
    /\ evalFilters = <<>>
    /\ Len(drawings) = 3
    /\ evalResult.aggregates["COUNT"] = Num(2)

\* What a value adds to a sum when only numbers count: its number, 0 for any
\* other value.
Contribution(v) == IF IsNumeric(v) THEN NumericValue(v) ELSE 0

RECURSIVE SumOfContributions(_)
SumOfContributions(S) ==
    IF S = {} THEN 0
    ELSE LET i == CHOOSE i \in S : TRUE
         IN  Contribution(KeptValues[i]) + SumOfContributions(S \ {i})

\* C14: SUM is the sum of the non-empty values of the kept records, a value that
\* is not a number adding 0; AVERAGE is that sum over the number of non-empty
\* values, to two decimals, and 0 when there is none.
C14_SumAndAverage ==
    lastOp = "calculateAggregation" =>
        /\ evalResult.aggregates["SUM"] = Num(SumOfContributions(Present))
        /\ evalResult.aggregates["AVERAGE"] =
               IF Present = {} THEN Num(0)
               ELSE Str(toFixed2(SumOfContributions(Present), Cardinality(Present)))

NumericKept == {i \in Present : IsNumeric(KeptValues[i])}

\* C15: MIN and MAX are the least and the greatest of the non-empty values that
\* are numbers, and "-" exactly when there is no such value.
C15_MinMaxOverNumbers ==
    lastOp = "calculateAggregation" =>
        IF NumericKept = {}
        THEN /\ evalResult.aggregates["MIN"] = Str(<<"-">>)
             /\ evalResult.aggregates["MAX"] = Str(<<"-">>)
        ELSE /\ \E i \in NumericKept :
                   /\ evalResult.aggregates["MIN"] = Num(NumericValue(KeptValues[i]))
                   /\ \A j \in NumericKept :
                          NumericValue(KeptValues[i]) <= NumericValue(KeptValues[j])
             /\ \E i \in NumericKept :
                   /\ evalResult.aggregates["MAX"] = Num(NumericValue(KeptValues[i]))
                   /\ \A j \in NumericKept :
                          NumericValue(KeptValues[i]) >= NumericValue(KeptValues[j])

\* C16: COUNT_TRUE counts the kept records whose value is the boolean true and
\* COUNT_FALSE those whose value is the boolean false; the two add up to at most
\* COUNT, and to COUNT when every non-empty value is a boolean.
C16_BooleanCounts ==
    lastOp = "calculateAggregation" =>
        LET trues == {i \in 1..Len(KeptValues) : KeptValues[i] = Bool(TRUE)}
            falses == {i \in 1..Len(KeptValues) : KeptValues[i] = Bool(FALSE)}
            count == evalResult.aggregates["COUNT"].n
        IN  /\ evalResult.aggregates["COUNT_TRUE"] = Num(Cardinality(trues))
            /\ evalResult.aggregates["COUNT_FALSE"] = Num(Cardinality(falses))
            /\ Cardinality(trues) + Cardinality(falses) <= count
            /\ (\A i \in Present : KeptValues[i].t = "boolean") =>
                   Cardinality(trues) + Cardinality(falses) = count

\* C16 witness: the values true, false, true give 2, 1 and 3.
C16_Witness ==
    /\ lastOp = "calculateAggregation"
    /\ evalFilters = <<>>
    /\ AllValues(drawings, "n") = <<Bool(TRUE), Bool(FALSE), Bool(TRUE)>>
    /\ evalResult.aggregates["COUNT_TRUE"] = Num(2)
    /\ evalResult.aggregates["COUNT_FALSE"] = Num(1)
    /\ evalResult.aggregates["COUNT"] = Num(3)

\* C17: every aggregation under a list of conditions is the aggregation, without
\* conditions, of the records the list keeps.
C17_FilterThenAggregate ==
    lastOp = "calculateAggregation" =>
        \A a \in AggregationType :
            evalResult.aggregates[a] =
                calculateAggregation(evalResult.filtered, columns[1], a, Undefined, columns)

\* C17 witness: of the values 5, 10 and '' the condition GREATER_THAN "6" keeps
\* the 10, and the SUM under it is 10.
C17_Witness ==
    /\ lastOp = "calculateAggregation"
    /\ AllValues(drawings, "n") = <<Num(5), Num(10), Str(<<>>)>>
    /\ evalFilters = <<Condition("c1", "GREATER_THAN", Str(<<"6">>))>>
    /\ AllValues(evalResult.filtered, "n") = <<Num(10)>>
    /\ evalResult.aggregates["SUM"] = Num(10)

(***************************************************************************)
(* SpecCards: the add-card form over columns of every type, next to cards  *)
(* and a group saved on an earlier visit, while a column is deleted on the *)
(* page.                                                                   *)
(***************************************************************************)
MaxNewCards == 1    \* SpecCards: cards handleAddCard may create in one run

\* "link" is a type the ColumnType enum does not list: the default branch of the
\* switches over the type.
TypedColumns ==
    <<[id |-> "c1", name |-> "n", type |-> ColumnType.NUMBER],
      [id |-> "c2", name |-> "done", type |-> ColumnType.BOOLEAN],
      [id |-> "c3", name |-> "rev", type |-> ColumnType.TEXT],
      [id |-> "c4", name |-> "due", type |-> ColumnType.DATE],
      [id |-> "c5", name |-> "ref", type |-> "link"]>>

SavedGroup == [id |-> GroupUuid(1), name |-> "Totals",
               cardIds |-> <<CardUuid(1), CardUuid(2)>>]

\* A deletion that also drops the cards of the column and saves the rest.
RemoveColumnAndPrune(c) ==
    /\ PageRendered
    /\ FindColumn(columns, c) # Undefined
    /\ Len(columns) > 1
    /\ columns' = SelectSeq(columns, LAMBDA x : x.id # c)
    /\ cards' = Arr(SelectSeq(cards.items, LAMBDA x : x.columnId # c))
    /\ localStorage' = setItem(localStorage, getStorageKey(jobId), JSONstringify(cards'))
    /\ lastOp' = "columns"
    /\ UNCHANGED <<jobId, groups, selectedColumn, selectedAggregation, cardTitle, filters,
                   groupName, selectedCardsForGroup, stripVars, cardUuids, groupUuids,
                   evalVars>>

\* The columns prop after the page's column query returns without column c:
\* availableAggregations is computed again and the reset effect runs.
RemoveColumn(c) ==
    /\ PageRendered
    /\ FindColumn(columns, c) # Undefined
    /\ Len(columns) > 1
    /\ columns' = SelectSeq(columns, LAMBDA x : x.id # c)
    /\ selectedAggregation' =
           IF selectedColumn = c /\ selectedAggregation # "COUNT" THEN "COUNT"
           ELSE selectedAggregation
    /\ lastOp' = "columns"
    /\ UNCHANGED <<jobId, localStorage, cards, groups, selectedColumn, cardTitle, filters,
                   groupName, selectedCardsForGroup, stripVars, cardUuids, groupUuids,
                   evalVars>>

InitCards ==
    /\ jobId = "j1"
    /\ columns = TypedColumns
    /\ localStorage = [k \in StorageKeys |->
                          IF k = getStorageKey("j1") THEN JSONstringify(Arr(SavedCards))
                          ELSE IF k = getGroupsKey("j1")
                               THEN JSONstringify(Arr(<<SavedGroup>>))
                          ELSE Absent]
    /\ cards = Arr(SavedCards)
    /\ groups = Arr(<<SavedGroup>>)
    /\ selectedColumn = ""
    /\ selectedAggregation = "COUNT"
    /\ cardTitle = ""
    /\ filters = <<>>
    /\ groupName = ""
    /\ selectedCardsForGroup = <<>>
    /\ stripCards = Arr(SavedCards)
    /\ stripGroups = Arr(<<SavedGroup>>)
    /\ isCollapsed = FALSE
    /\ cardUuids = MaxJobCards
    /\ groupUuids = 1
    /\ InitNoEvaluation
    /\ lastOp = "mount"

\* The column deleted in SpecCards, and the cards picked for a second group.
DeletedColumn == "c3"
UngroupedPicks == {CardUuid(3), CardUuid(4)}

NextCards ==
    \/ \E i \in 1..Len(columns) : SetSelectedColumn(columns[i].id)
    \/ \E a \in AggregationType : SetSelectedAggregation(a)
    \/ RemoveColumn(DeletedColumn)
    \/ cardUuids < MaxJobCards + MaxNewCards /\ HandleAddCard
    \/ \E n \in GroupNames : SetGroupName(n)
    \/ \E id \in UngroupedPicks : ToggleCardSelection(id)
    \/ groupUuids < MaxJobGroups /\ HandleCreateGroup

SpecCards == InitCards /\ [][NextCards]_vars

\* C18: the aggregations offered are COUNT, SUM, AVERAGE, MIN, MAX for a number
\* column, COUNT, COUNT_TRUE, COUNT_FALSE for a boolean column and COUNT alone
\* for a column of any other type, COUNT being the first in every case.
C18_LegalAggregations ==
    \A i \in 1..Len(columns) :
        LET offered == getAggregationsForType(columns[i].type)
        IN  /\ offered[1] = "COUNT"
            /\ columns[i].type = "number" =>
                   offered = <<"COUNT", "SUM", "AVERAGE", "MIN", "MAX">>
            /\ columns[i].type = "boolean" =>
                   offered = <<"COUNT", "COUNT_TRUE", "COUNT_FALSE">>
            /\ columns[i].type \notin {"number", "boolean"} => offered = <<"COUNT">>
            /\ selectedColumn = columns[i].id =>
                   availableAggregations(selectedColumn) = offered

\* C18 witness: COUNT_FALSE picked for the boolean column while a text, a date
\* and a column of another type are listed.
C18_Witness ==
    /\ selectedColumn = "c2"
    /\ selectedAggregation = "COUNT_FALSE"
    /\ {"text", "date", "link"} \subseteq {columns[i].type : i \in 1..Len(columns)}

IdsDistinct ==
    /\ \A i, j \in 1..Len(cards.items) : cards.items[i].id = cards.items[j].id => i = j
    /\ \A i, j \in 1..Len(groups.items) : groups.items[i].id = groups.items[j].id => i = j

AddCardStep ==
    lastOp' = "handleAddCard" =>
        /\ groups' = groups
        /\ IF selectedColumn = "" \/ FindColumn(columns, selectedColumn) = Undefined
           THEN cards' = cards /\ localStorage' = localStorage
           ELSE /\ Len(cards'.items) = Len(cards.items) + 1
                /\ SubSeq(cards'.items, 1, Len(cards.items)) = cards.items
                /\ cards'.items[Len(cards'.items)].id \notin CardIds(cards.items)

\* C19: handleAddCard with a selected live column appends one card with a fresh
\* id and leaves the other cards, their order and the groups as they are; with
\* no column or a deleted column selected it changes nothing; card ids are
\* pairwise distinct and group ids are pairwise distinct in every state.
C19_AddCardAppendsFresh == [](IdsDistinct) /\ [][AddCardStep]_vars

\* C19 witness: a card added after the saved ones while two groups exist.
C19_Witness ==
    /\ lastOp = "handleAddCard"
    /\ Len(cards.items) = MaxJobCards + 1
    /\ Len(groups.items) = 2

\* C19, second case: handleAddCard returned on a selected column that was deleted.
C19_DeletedColumnReached ==
    /\ lastOp = "handleAddCard"
    /\ selectedColumn = DeletedColumn
    /\ FindColumn(columns, selectedColumn) = Undefined

(***************************************************************************)
(* SpecDrag: drags in the configurator and in the strip over cards saved   *)
(* on an earlier visit, with or without a saved group of the first two.    *)
(***************************************************************************)
MaxDragCards == 3

DragCards == [i \in 1..MaxDragCards |-> SavedCard(i)]

InitDrag ==
    /\ jobId = "j1"
    /\ columns = InitialColumns
    /\ \E gs \in {<<>>, <<SavedGroup>>} :
          /\ localStorage = [k \in StorageKeys |->
                                IF k = getStorageKey("j1") THEN JSONstringify(Arr(DragCards))
                                ELSE IF k = getGroupsKey("j1") /\ gs # <<>>
                                     THEN JSONstringify(Arr(gs))
                                ELSE Absent]
          /\ groups = Arr(gs)
          /\ stripGroups = Arr(gs)
          /\ groupUuids = Len(gs)
    /\ cards = Arr(DragCards)
    /\ stripCards = Arr(DragCards)
    /\ selectedColumn = ""
    /\ selectedAggregation = "COUNT"
    /\ cardTitle = ""
    /\ filters = <<>>
    /\ groupName = ""
    /\ selectedCardsForGroup = <<>>
    /\ isCollapsed = FALSE
    /\ cardUuids = MaxDragCards
    /\ InitNoEvaluation
    /\ lastOp = "mount"

NextDrag ==
    \/ \E a \in CardIds(cards.items), o \in CardIds(cards.items) \cup {NoTarget} :
            HandleDragEnd(a, o)
    \/ \E a \in StripDraggable, o \in StripDraggable \cup {NoTarget} :
            StripHandleDragEnd(a, o)

SpecDrag == InitDrag /\ [][NextDrag]_vars

\* What a drag of card a onto b makes of the list old.
DragContract(old, new, a, b) ==
    IF b = NoTarget \/ a = b THEN new = old
    ELSE /\ Len(new) = Len(old)
         /\ \E i, j \in 1..Len(old) :
                old[i].id = b /\ old[j].id = a /\ new[i] = old[j]
         /\ SelectSeq(new, LAMBDA c : c.id # a) = SelectSeq(old, LAMBDA c : c.id # a)

DragStep ==
    \A a \in CardIds(cards.items), b \in CardIds(cards.items) \cup {NoTarget} :
        /\ HandleDragEnd(a, b) =>
               /\ DragContract(cards.items, cards'.items, a, b)
               /\ groups' = groups /\ stripGroups' = stripGroups
        /\ StripHandleDragEnd(a, b) =>
               /\ DragContract(stripCards.items, stripCards'.items, a, b)
               /\ groups' = groups /\ stripGroups' = stripGroups

\* C20: a drag of card a onto another card b puts a at b's former index and
\* keeps the other cards in their order, with no card added or removed and the
\* groups and their cardIds as they were; a drag with no target or onto the
\* card itself changes nothing. In the configurator and in the strip.
C20_ReorderIsMove == [][DragStep]_vars

\* C20 witness: the first card dragged onto the third in the configurator,
\* next to a group.
C20_Witness ==
    /\ lastOp = "handleDragEnd"
    /\ [i \in 1..Len(cards.items) |-> cards.items[i].id]
           = <<CardUuid(2), CardUuid(3), CardUuid(1)>>
    /\ Len(groups.items) = 1

(***************************************************************************)
(* Claims on the configuration and its storage.                            *)
(***************************************************************************)
MembersOf(groupId) ==
    UNION {Range(groups.items[i].cardIds) :
              i \in {k \in 1..Len(groups.items) : groups.items[k].id = groupId}}

\* handleRemoveGroup drops the group and nothing else.
RemoveGroupFrame(groupId) ==
    /\ groups'.items = SelectSeq(groups.items, LAMBDA g : g.id # groupId)
    /\ Len(groups'.items) = Len(groups.items) - 1
    /\ cards' = cards

RemoveGroupStep ==
    \A groupId \in GroupIds(groups.items) :
        HandleRemoveGroup(groupId) =>
            /\ RemoveGroupFrame(groupId)
            /\ \A m \in MembersOf(groupId) :
                   \E i \in 1..Len(cards.items) :
                       /\ cards.items[i].id = m
                       /\ cards'.items[i].id = m
                       /\ ~InAnyGroup(groups'.items, m)

\* C21: handleRemoveGroup removes the group with the id and leaves the other
\* groups and the card list as they are, and every former member is afterwards
\* an ungrouped card at the position it had.
C21_RemoveGroupFreesMembers == [][RemoveGroupStep]_vars

(***************************************************************************)
(* SpecColumns: both components over saved cards of two columns, with or   *)
(* without a saved group of the first two, while the second column is      *)
(* deleted, cards are removed and cards are dragged.                       *)
(***************************************************************************)
\* The first saved card is on the column that gets deleted.
ColumnCards ==
    [i \in 1..MaxDragCards |->
        IF i = 1 THEN [SavedCard(i) EXCEPT !.columnId = "c2", !.title = "Count done"]
        ELSE SavedCard(i)]

InitColumns ==
    /\ jobId = "j1"
    /\ columns = InitialColumns
    /\ \E gs \in {<<>>, <<SavedGroup>>} :
          /\ localStorage = [k \in StorageKeys |->
                                IF k = getStorageKey("j1")
                                THEN JSONstringify(Arr(ColumnCards))
                                ELSE IF k = getGroupsKey("j1") /\ gs # <<>>
                                     THEN JSONstringify(Arr(gs))
                                ELSE Absent]
          /\ groups = Arr(gs)
          /\ stripGroups = Arr(gs)
          /\ groupUuids = Len(gs)
    /\ cards = Arr(ColumnCards)
    /\ stripCards = Arr(ColumnCards)
    /\ selectedColumn = ""
    /\ selectedAggregation = "COUNT"
    /\ cardTitle = ""
    /\ filters = <<>>
    /\ groupName = ""
    /\ selectedCardsForGroup = <<>>
    /\ isCollapsed = FALSE
    /\ cardUuids = MaxDragCards
    /\ InitNoEvaluation
    /\ lastOp = "mount"

NextColumns ==
    \/ RemoveColumn("c2")
    \/ \E id \in CardIds(cards.items) : HandleRemoveCard(id)
    \/ \E a \in CardIds(cards.items), o \in CardIds(cards.items) \cup {NoTarget} :
            HandleDragEnd(a, o)
    \/ \E a \in StripDraggable, o \in StripDraggable \cup {NoTarget} :
            StripHandleDragEnd(a, o)

SpecColumns == InitColumns /\ [][NextColumns]_vars

\* StatCardGroupDisplay: the cards of the group that are rendered with a value.
GroupDisplayed(group) ==
    {c.id : c \in {x \in Range(SelectSeq(stripCards.items,
                                         LAMBDA y : Includes(group.cardIds, y.id))) :
                       FindColumn(columns, x.columnId) # Undefined}}

\* The cards the strip shows a value for, alone or in a group.
StripValues ==
    StripDraggable \cup UNION {GroupDisplayed(stripGroups.items[i]) :
                                  i \in 1..Len(stripGroups.items)}

HasColumn(card, cols) == \E k \in 1..Len(cols) : cols[k].id = card.columnId

\* The ids of the cards persisted for the job; none when nothing is stored.
StoredCardIds(store, j) ==
    IF store[getStorageKey(j)].t = "json" /\ IsArray(store[getStorageKey(j)].v)
    THEN CardIds(store[getStorageKey(j)].v.items)
    ELSE {}

\* The strip shows a value for a card exactly when its column exists.
RenderSkipsDeleted ==
    \A i \in 1..Len(stripCards.items) :
        (stripCards.items[i].id \in StripValues) = HasColumn(stripCards.items[i], columns)

ColumnStep ==
    /\ \A c \in ColumnIds :
           RemoveColumn(c) =>
               /\ cards' = cards /\ groups' = groups
               /\ stripCards' = stripCards /\ stripGroups' = stripGroups
               /\ localStorage' = localStorage
    /\ lastOp' # "handleRemoveCard" =>
           \A i \in 1..Len(cards.items) :
               ~HasColumn(cards.items[i], columns) =>
                   /\ cards.items[i].id \in CardIds(cards'.items)
                   /\ cards.items[i].id \in StoredCardIds(localStorage, jobId) =>
                          cards.items[i].id \in StoredCardIds(localStorage', jobId)

operatorNeedsValue(operator) ==
    operator \notin {"IS_TRUE", "IS_FALSE", "IS_EMPTY", "IS_NOT_EMPTY"}

FilterBuilderRendered == PageRendered /\ Len(columns) > 0 /\ selectedColumn # ""

addFilter ==
    /\ FilterBuilderRendered
    /\ filters' = filters \o <<Condition(columns[1].id,
                                         getOperatorsForType(columns[1].type)[1],
                                         Str(<<>>))>>
    /\ lastOp' = "input"
    /\ UNCHANGED <<jobId, columns, localStorage, cards, groups, selectedColumn,
                   selectedAggregation, cardTitle, groupName, selectedCardsForGroup,
                   stripVars, cardUuids, groupUuids, evalVars>>

\* { ...newFilters[index], ...updates }
Merged(filter, updates) ==
    [f \in DOMAIN filter |-> IF f \in DOMAIN updates THEN updates[f] ELSE filter[f]]

\* An update that never touches the operator and the value of a condition whose
\* column changes.
updateFilterKeepOperator(fs, index, updates, cols) ==
    [fs EXCEPT ![index] = Merged(fs[index], updates)]

\* The list updateFilter passes to onChange.
updateFilter(fs, index, updates, cols) ==
    LET merged == Merged(fs[index], updates)
        column == IF "columnId" \in DOMAIN updates /\ updates.columnId # ""
                  THEN FindColumn(cols, updates.columnId)
                  ELSE Undefined
    IN  [fs EXCEPT ![index] =
            IF column # Undefined
            THEN [merged EXCEPT !.operator = getOperatorsForType(column.type)[1],
                                !.value = Str(<<>>)]
            ELSE merged]

SetFilters(fs) ==
    /\ FilterBuilderRendered
    /\ filters' = fs
    /\ lastOp' = "input"
    /\ UNCHANGED <<jobId, columns, localStorage, cards, groups, selectedColumn,
                   selectedAggregation, cardTitle, groupName, selectedCardsForGroup,
                   stripVars, cardUuids, groupUuids, evalVars>>

\* The column select of condition `index`: one of the listed columns.
UpdateFilterColumn(index, c) ==
    /\ index \in 1..Len(filters)
    /\ FindColumn(columns, c) # Undefined
    /\ SetFilters(updateFilter(filters, index, [columnId |-> c], columns))

\* The operator select of condition `index`: the operators of its column's type,
\* none when the column is gone.
UpdateFilterOperator(index, op) ==
    /\ index \in 1..Len(filters)
    /\ LET column == FindColumn(columns, filters[index].columnId)
       IN  /\ column # Undefined
           /\ Includes(getOperatorsForType(column.type), op)
    /\ SetFilters(updateFilter(filters, index, [operator |-> op], columns))

\* The value input of condition `index`, rendered for an operator that needs one.
UpdateFilterValue(index, v) ==
    /\ index \in 1..Len(filters)
    /\ operatorNeedsValue(filters[index].operator)
    /\ SetFilters(updateFilter(filters, index, [value |-> v], columns))

removeFilter(index) ==
    /\ index \in 1..Len(filters)
    /\ SetFilters(RemoveAt(filters, index))

(***************************************************************************)
(* SpecBuilder: every edit of up to MaxFilters conditions over columns of  *)
(* every type.                                                             *)
(***************************************************************************)
BuilderValues == {Str(<<>>), Str(<<"5">>)}

InitBuilder ==
    /\ jobId = "j1"
    /\ columns = TypedColumns
    /\ localStorage = [k \in StorageKeys |-> Absent]
    /\ InitComponents
    /\ InitNoEvaluation
    /\ lastOp = "mount"

NextBuilder ==
    \/ \E c \in FirstColumn : SetSelectedColumn(c)
    \/ Len(filters) < MaxFilters /\ addFilter
    \/ \E i \in 1..Len(filters), k \in 1..Len(columns) : UpdateFilterColumn(i, columns[k].id)
    \/ \E i \in 1..Len(filters), op \in FilterOperator : UpdateFilterOperator(i, op)
    \/ \E i \in 1..Len(filters), v \in BuilderValues : UpdateFilterValue(i, v)
    \/ \E i \in 1..Len(filters) : removeFilter(i)

SpecBuilder == InitBuilder /\ [][NextBuilder]_vars

TypeOf(columnId) ==
    LET k == CHOOSE k \in 1..Len(columns) : columns[k].id = columnId
    IN  columns[k].type

OperatorsLegal ==
    \A i \in 1..Len(filters) :
        \E k \in 1..Len(getOperatorsForType(TypeOf(filters[i].columnId))) :
            getOperatorsForType(TypeOf(filters[i].columnId))[k] = filters[i].operator

\* A step that adds a condition, and a step that changes columns of conditions.
BuilderStep ==
    /\ Len(filters') = Len(filters) + 1 =>
           /\ SubSeq(filters', 1, Len(filters)) = filters
           /\ filters'[Len(filters')] =
                  [columnId |-> columns[1].id,
                   operator |-> getOperatorsForType(columns[1].type)[1],
                   value |-> Str(<<>>)]
    /\ Len(filters') = Len(filters) =>
           \A i \in 1..Len(filters) :
               filters'[i].columnId # filters[i].columnId =>
                   /\ filters'[i].operator =
                          getOperatorsForType(TypeOf(filters'[i].columnId))[1]
                   /\ filters'[i].value = Str(<<>>)
                   /\ \A j \in 1..Len(filters) : j # i => filters'[j] = filters[j]

\* C25: a new condition is on the first column with the first operator of its
\* type and an empty value; a change of a condition's column sets the first
\* operator of the new column's type and clears the value; with the columns
\* fixed, every condition's operator is one of the operators of its column's type.
C25_BuilderKeepsOperatorsLegal == [](OperatorsLegal) /\ [][BuilderStep]_vars

\* C25 witness: a condition moved to the boolean column and set to IS_FALSE, next
\* to one moved to the date column with a value.
C25_Witness ==
    filters = <<Condition("c2", "IS_FALSE", Str(<<>>)),
                Condition("c4", "LESS_THAN", Str(<<"5">>))>>

(***************************************************************************)
(* SpecTitles: cards added with and without a title and conditions, over   *)
(* the number and the boolean column.                                      *)
(***************************************************************************)
CardTitles == {"", "Mine"}

NextTitles ==
    \/ \E c \in ColumnIds : SetSelectedColumn(c)
    \/ \E a \in AggregationType : SetSelectedAggregation(a)
    \/ \E t \in CardTitles : SetCardTitle(t)
    \/ Len(filters) < MaxFilters /\ addFilter
    \/ \E i \in 1..Len(filters), c \in ColumnIds : UpdateFilterColumn(i, c)
    \/ cardUuids < MaxNewCards /\ HandleAddCard

SpecTitles == Init /\ [][NextTitles]_vars

NameOf(columnId) ==
    LET k == CHOOSE k \in 1..Len(columns) : columns[k].id = columnId
    IN  columns[k].name

\* The text has `part` somewhere from position `from` on.
ContainsFrom(text, part, from) ==
    \E k \in from..(Len(text) - Len(part) + 1) : SubSeq(text, k, k + Len(part) - 1) = part

TitleStep ==
    (lastOp' = "handleAddCard" /\ Len(cards'.items) = Len(cards.items) + 1) =>
        LET new == cards'.items[Len(cards'.items)]
            base == aggregationLabels[new.aggregation] \o " " \o NameOf(new.columnId)
            names == FilterDesc(filters)
        IN  IF cardTitle # "" THEN new.title = cardTitle
            ELSE IF filters = <<>> THEN new.title = base
            ELSE /\ Len(new.title) >= Len(base)
                 /\ SubSeq(new.title, 1, Len(base)) = base
                 /\ ContainsFrom(new.title, names, Len(base) + 1)

\* C23: without a title from the user the card's title is the aggregation's
\* label, a space and the name of the card's column, followed, when the card has
\* conditions, by the comma-joined names of their columns; a title from the user
\* is stored as it is.
C23_DefaultTitle == [][TitleStep]_vars

(***************************************************************************)
(* The configuration as Empty or Populated, under Spec.                    *)
(***************************************************************************)
Populated(cs) == Len(cs.items) > 0

\* C24 as stated: the first handleAddCard takes the configuration from Empty to
\* Populated, and a Populated configuration is Populated after every further
\* handleAddCard, handleRemoveCard, handleDragEnd, handleCreateGroup and
\* handleRemoveGroup.
C24_StaysPopulated ==
    [][/\ (lastOp' = "handleAddCard" /\ ~Populated(cards) /\ cards' # cards) => Populated(cards')
       /\ Populated(cards) => Populated(cards')]_vars

PopulatedStep ==
    /\ (lastOp' = "handleAddCard" /\ cards' # cards) =>
           Len(cards'.items) = Len(cards.items) + 1
    /\ (lastOp' \in {"handleAddCard", "handleDragEnd", "handleCreateGroup",
                     "handleRemoveGroup"} /\ Populated(cards)) => Populated(cards')
    /\ lastOp' = "handleRemoveCard" =>
           /\ Len(cards'.items) = Len(cards.items) - 1
           /\ Populated(cards') <=> Len(cards.items) > 1

\* C24, amended: the first handleAddCard takes the configuration from Empty to
\* Populated; a Populated configuration is Populated after every further
\* handleAddCard, handleDragEnd, handleCreateGroup and handleRemoveGroup, and
\* after a handleRemoveCard exactly when it held more than one card:
\* handleRemoveCard on the only card takes it back to Empty.
C24_PopulatedUntilLastRemoved == [][PopulatedStep]_vars

\* The only card has been removed: the configuration is Empty again.
C24_Witness ==
    /\ lastOp = "handleRemoveCard"
    /\ cardUuids > 0
    /\ ~Populated(cards)

(***************************************************************************)
(* The aggregation selected in the add-card form, under SpecCards.         *)
(***************************************************************************)
AggregationStep ==
    /\ (selectedColumn' # selectedColumn /\ selectedColumn' # "") =>
           LET legal == getAggregationsForType(TypeOf(selectedColumn'))
           IN  selectedAggregation' = IF Includes(legal, selectedAggregation)
                                      THEN selectedAggregation
                                      ELSE legal[1]
    /\ (lastOp' = "handleAddCard" /\ Len(cards'.items) = Len(cards.items) + 1) =>
           LET new == cards'.items[Len(cards'.items)]
           IN  Includes(getAggregationsForType(TypeOf(new.columnId)), new.aggregation)

\* C26: when the selected column changes to one whose type does not allow the
\* selected aggregation, the selection becomes the first aggregation the new type
\* allows (a legal selection stays), and every card handleAddCard stores has an
\* aggregation its column's type allows at that moment.
C26_AddedAggregationLegal == [][AggregationStep]_vars

\* A card with an aggregation other than COUNT has just been added on the
\* boolean column.
C26_Witness ==
    /\ lastOp = "handleAddCard"
    /\ Len(cards.items) = MaxJobCards + MaxNewCards
    /\ cards.items[Len(cards.items)].columnId = "c2"
    /\ cards.items[Len(cards.items)].aggregation = "COUNT_FALSE"

(***************************************************************************)
(* The strip and the configurator on the same job, under SpecColumns: both *)
(* are mounted with the job's saved cards loaded.                          *)
(***************************************************************************)
StorageStep ==
    /\ lastOp' # "handleRemoveCard" =>
           StoredCardIds(localStorage, jobId) \subseteq StoredCardIds(localStorage', jobId)
    /\ lastOp' # "handleAddCard" =>
           StoredCardIds(localStorage', jobId) \subseteq StoredCardIds(localStorage, jobId)

\* C27: whatever the two components do in whatever order, a card in the job's
\* storage stays there until handleRemoveCard removes it, and a card that
\* handleRemoveCard has removed from storage never comes back.
C27_NoLostUpdate == [][StorageStep]_vars

ConfiguratorMutations ==
    {"handleAddCard", "handleRemoveCard", "handleDragEnd", "handleCreateGroup",
     "handleRemoveGroup"}

StripInSync ==
    /\ stripCards = LoadedState(localStorage[getStorageKey(jobId)], EmptyArr)
    /\ stripGroups = LoadedState(localStorage[getGroupsKey(jobId)], EmptyArr)

\* C28: after every mutation made in the configurator the cards and the groups
\* the strip holds for the job are the ones in the job's storage.
C28_StripFollowsConfigurator ==
    [][(lastOp' \in ConfiguratorMutations /\ cfgVars' # cfgVars) => StripInSync']_vars

(***************************************************************************)
(* The configurator's writes, under Spec: the configurator alone on a job. *)
(***************************************************************************)
Persisted(key) == LoadedState(localStorage[key], EmptyArr)

WriteThrough ==
    /\ Persisted(getStorageKey(jobId)) = cards
    /\ Persisted(getGroupsKey(jobId)) = groups

WriteThroughStep ==
    /\ lastOp' \in ConfiguratorMutations => WriteThrough'
    /\ lastOp' = "handleRemoveCard" =>
           /\ localStorage'[getStorageKey(jobId)] = JSONstringify(cards')
           /\ localStorage'[getGroupsKey(jobId)] = JSONstringify(groups')
           /\ \A id \in CardIds(cards.items) \ CardIds(cards'.items) :
                  ~InAnyGroup(Persisted(getGroupsKey(jobId))'.items, id)

KeysOf(j) == {"job-stats-config-" \o j, "job-stats-groups-" \o j, "job-stats-collapsed-" \o j}

IsolationStep ==
    /\ \A k \in DOMAIN localStorage :
           localStorage'[k] # localStorage[k] => k \in KeysOf(jobId)
    /\ lastOp' = "toggleCollapse" =>
           /\ isCollapsed' = ~isCollapsed
           /\ localStorage' = [localStorage EXCEPT !["job-stats-collapsed-" \o jobId] =
                                                       StringOfBoolean(isCollapsed')]
           /\ UNCHANGED <<cards, groups, stripCards, stripGroups>>

\* C30: every step taken while the job id is j changes no storage key but the
\* three of j, so what is stored for every other job stays as it is; toggling
\* the collapse changes and stores the collapse flag alone and leaves cards and
\* groups, in memory and in storage, unchanged.
C30_PerJobIsolation == [][IsolationStep]_vars

\* A card has just been added on job j2 while job j1 keeps the cards stored on
\* an earlier visit, and a collapse has been stored for one of the jobs.
C30_Witness ==
    /\ jobId = "j2"
    /\ lastOp = "handleAddCard"
    /\ localStorage["job-stats-config-j1"].t = "json"
    /\ localStorage["job-stats-config-j2"].t = "json"
    /\ localStorage["job-stats-config-j2"] # localStorage["job-stats-config-j1"]
    /\ \E j \in Jobs : localStorage["job-stats-collapsed-" \o j] # Absent

====
